---- MODULE Spec2Model ----
(***************************************************************************)
(* Model of daps/model.py: the network builder (build_mlp, build_lstm,     *)
(* build_model), the forward-pass runner (forward_pass) and the proposal   *)
(* assembler (retrieve_proposals).                                         *)
(*                                                                         *)
(* Strings are sequences of one-character strings, so that startswith,     *)
(* split, int() and float() are computed and not assumed.  Dropout rates   *)
(* are kept in thousandths.  Real-valued network outputs are kept in       *)
(* fixed point with LocScale steps per unit.                               *)
(***************************************************************************)
EXTENDS Integers, Naturals, Sequences, FiniteSets, TLC

VARIABLES pc, model_prm, network, exc,
          l_size, T, stride, feat_dim,
          fobj, f_init_array, feat_stack,
          l_pred, y_pred, loc, score, map_array, seg_in, proposal

vars == <<pc, model_prm, network, exc, l_size, T, stride, feat_dim,
          fobj, f_init_array, feat_stack, l_pred, y_pred, loc, score,
          map_array, seg_in, proposal>>

----------------------------------------------------------------------------
(* Bounds of the model *)

MaxL == 6

MaxT == 3

MaxStride == 3

MaxSeed == 2

ScoreScale == 5

LocScale == 2

(* Program constants *)

DefaultDropHidden == 500

DefaultInputSize == 4096

DefaultGradClip == 100

DefaultForgetBias == 1

----------------------------------------------------------------------------
(* Python str / list primitives used by build_model and retrieve_proposals *)

Min(a, b) == IF a <= b THEN a ELSE b

Max(a, b) == IF a >= b THEN a ELSE b

startswith(s, prefix) ==
    /\ Len(s) >= Len(prefix)
    /\ SubSeq(s, 1, Len(prefix)) = prefix

RECURSIVE split(_, _)
split(s, sep) ==
    IF \A i \in 1..Len(s) : s[i] # sep
    THEN <<s>>
    ELSE LET i == CHOOSE j \in 1..Len(s) :
                      s[j] = sep /\ \A k \in 1..(j - 1) : s[k] # sep
         IN  <<SubSeq(s, 1, i - 1)>> \o split(SubSeq(s, i + 1, Len(s)), sep)

(* s.split(sep, 1) *)
split_once(s, sep) ==
    IF \A i \in 1..Len(s) : s[i] # sep
    THEN <<s>>
    ELSE LET i == CHOOSE j \in 1..Len(s) :
                      s[j] = sep /\ \A k \in 1..(j - 1) : s[k] # sep
         IN  <<SubSeq(s, 1, i - 1), SubSeq(s, i + 1, Len(s))>>

Digits == <<"0", "1", "2", "3", "4", "5", "6", "7", "8", "9">>

IsDigit(c) == \E d \in 1..10 : Digits[d] = c

DigitVal(c) == (CHOOSE d \in 1..10 : Digits[d] = c) - 1

AllDigits(tok) == \A i \in 1..Len(tok) : IsDigit(tok[i])

RECURSIVE DecimalValue(_)
DecimalValue(tok) ==
    IF Len(tok) = 0 THEN 0
    ELSE 10 * DecimalValue(SubSeq(tok, 1, Len(tok) - 1)) + DigitVal(tok[Len(tok)])

(* int(tok): ok is FALSE where Python raises ValueError *)
int(tok) ==
    IF Len(tok) > 0 /\ AllDigits(tok)
    THEN [ok |-> TRUE, val |-> DecimalValue(tok)]
    ELSE [ok |-> FALSE, val |-> 0]

RECURSIVE Pow10(_)
Pow10(n) == IF n = 0 THEN 1 ELSE 10 * Pow10(n - 1)

(* float(tok), in thousandths; literals carry at most three decimals *)
float(tok) ==
    LET parts == split(tok, ".")
        whole == parts[1]
        frac  == IF Len(parts) = 2 THEN parts[2] ELSE <<>>
    IN  IF /\ Len(parts) <= 2
           /\ AllDigits(whole) /\ AllDigits(frac)
           /\ Len(whole) + Len(frac) > 0
           /\ Len(frac) <= 3
        THEN [ok |-> TRUE,
              val |-> 1000 * DecimalValue(whole)
                        + DecimalValue(frac) * Pow10(3 - Len(frac))]
        ELSE [ok |-> FALSE, val |-> 0]

----------------------------------------------------------------------------
(* Layer graphs.  A network is the sequence of its layers, input first. *)

NoLayer == [type |-> "None"]

InputLayer(shape) == [type |-> "Input", shape |-> shape]

DropoutLayer(p) == [type |-> "Dropout", p |-> p]

DenseLayer(num_units, nonlinearity) ==
    [type |-> "Dense", num_units |-> num_units, nonlinearity |-> nonlinearity]

LSTMLayer(num_units, grad_clipping, forget_bias) ==
    [type |-> "LSTM", num_units |-> num_units,
     grad_clipping |-> grad_clipping, nonlinearity |-> "tanh",
     forget_bias |-> forget_bias]

SliceLayer(indices, axis) ==
    [type |-> "Slice", indices |-> indices, axis |-> axis]

RECURSIVE Repeat(_, _)
Repeat(block, n) == IF n <= 0 THEN <<>> ELSE block \o Repeat(block, n - 1)

build_lstm(seq_length, depth, width, input_size, grad_clip, forget_bias) ==
    <<InputLayer(<<seq_length, input_size>>)>>
      \o Repeat(<<LSTMLayer(width, grad_clip, forget_bias)>>, depth)
      \o <<SliceLayer(-1, 1)>>

build_mlp(depth, width, drop_input, drop_hidden, input_size) ==
    <<InputLayer(<<input_size>>)>>
      \o (IF drop_input # 0 THEN <<DropoutLayer(drop_input)>> ELSE <<>>)
      \o Repeat(<<DenseLayer(width, "rectify")>>
                  \o (IF drop_hidden # 0 THEN <<DropoutLayer(drop_hidden)>>
                                         ELSE <<>>),
                depth)

(* ModelKind without the final else: anything else is taken for an lstm *)
ModelKindNoElse(prm) ==
    IF startswith(prm, <<"m", "l", "p", ":">>) THEN "mlp" ELSE "lstm"

(* The prefix dispatch of build_model *)
ModelKind(prm) ==
    IF startswith(prm, <<"m", "l", "p", ":">>) THEN "mlp"
    ELSE IF startswith(prm, <<"l", "s", "t", "m", ":">>) THEN "lstm"
    ELSE "unrecognized"

(* model_prm.split(':', 1)[1].split(','); ok is FALSE where the index *)
(* raises IndexError                                                  *)
user_prm(prm) ==
    LET parts == split_once(prm, ":")
    IN  IF Len(parts) < 2 THEN [ok |-> FALSE, fields |-> <<>>]
        ELSE [ok |-> TRUE, fields |-> split(parts[2], ",")]

(* OutputHeads with the two widths exchanged *)
OutputHeadsSwapped(net, n_outputs) ==
    [localization |-> [incoming |-> net,
                       layer |-> DenseLayer(n_outputs, "default")],
     conf         |-> [incoming |-> net,
                       layer |-> DenseLayer(n_outputs * 2, "sigmoid")]]

(* The two heads of build_model, lines 70-74 *)
OutputHeads(net, n_outputs) ==
    [localization |-> [incoming |-> net,
                       layer |-> DenseLayer(n_outputs * 2, "default")],
     conf         |-> [incoming |-> net,
                       layer |-> DenseLayer(n_outputs, "sigmoid")]]

Raised(e) == [exc |-> e, localization |-> NoLayer, conf |-> NoLayer]

Returned(heads) ==
    [exc |-> "none", localization |-> heads.localization, conf |-> heads.conf]

(* The mlp branch of build_model; drop_hid is unpacked and not used *)
build_model_mlp(prm, input_size) ==
    LET f == user_prm(prm).fields IN
    IF ~user_prm(prm).ok THEN Raised("IndexError")
    ELSE IF Len(f) # 5 THEN Raised("ValueError")
    ELSE LET n_outputs == f[1]
             depth     == int(f[2])
             width     == int(f[3])
             drop_in   == float(f[4])
         IN  IF ~(depth.ok /\ width.ok /\ drop_in.ok /\ int(n_outputs).ok)
             THEN Raised("ValueError")
             ELSE Returned(OutputHeads(
                      build_mlp(depth.val, width.val, drop_in.val,
                                DefaultDropHidden, input_size),
                      int(n_outputs).val))

build_model_lstm(prm, input_size, grad_clip, forget_bias) ==
    LET f == user_prm(prm).fields IN
    IF ~user_prm(prm).ok THEN Raised("IndexError")
    ELSE IF Len(f) # 4 THEN Raised("ValueError")
    ELSE LET n_outputs  == f[1]
             seq_length == int(f[2])
             width      == int(f[3])
             depth      == int(f[4])
         IN  IF ~(seq_length.ok /\ width.ok /\ depth.ok /\ int(n_outputs).ok)
             THEN Raised("ValueError")
             ELSE Returned(OutputHeads(
                      build_lstm(seq_length.val, depth.val, width.val,
                                 input_size, grad_clip, forget_bias),
                      int(n_outputs).val))

build_model(prm, input_size, grad_clip, forget_bias) ==
    CASE ModelKind(prm) = "mlp"  -> build_model_mlp(prm, input_size)
      [] ModelKind(prm) = "lstm" ->
             build_model_lstm(prm, input_size, grad_clip, forget_bias)
      [] OTHER -> Raised("ValueError")

----------------------------------------------------------------------------
(* Configuration strings given to the builder *)

MaxDepth == 2

MaxOutputs == 5

RECURSIVE str(_)
str(n) ==
    IF n < 10 THEN <<Digits[n + 1]>>
    ELSE str(n \div 10) \o <<Digits[(n % 10) + 1]>>

RECURSIVE join(_, _)
join(fields, sep) ==
    IF Len(fields) = 0 THEN <<>>
    ELSE IF Len(fields) = 1 THEN fields[1]
    ELSE fields[1] \o <<sep>> \o join(Tail(fields), sep)

MlpPrefix == <<"m", "l", "p", ":">>

LstmPrefix == <<"l", "s", "t", "m", ":">>

Prefixes == {MlpPrefix, LstmPrefix, <<"g", "r", "u", ":">>, <<"m", "l", "p">>}

OutputTokens == {str(n) : n \in 1..MaxOutputs}

DepthTokens == {str(d) : d \in 0..MaxDepth}

WidthTokens == {str(1), str(4)}

RateTokens == {<<"0", ".", "0">>, <<"0", ".", "5">>, <<"0", ".", "2", "5">>}

SeqLengthTokens == {str(1), str(2), str(3)}

MlpFields ==
    {<<n, d, w, di, dh>> : n \in OutputTokens, d \in DepthTokens,
                           w \in WidthTokens, di \in RateTokens,
                           dh \in RateTokens}

LstmFields ==
    {<<n, s, w, d>> : n \in OutputTokens, s \in SeqLengthTokens,
                      w \in {str(4)}, d \in DepthTokens \ {str(0)}}

ShortFields == {<<n, d, w>> : n \in OutputTokens, d \in {str(1)}, w \in {str(4)}}

BuildConfigs ==
    {p \o join(f, ",") : p \in Prefixes,
                         f \in MlpFields \cup LstmFields \cup ShortFields}

ExampleConfig == MlpPrefix \o join(<<str(5), str(1), str(4), <<"0", ".", "0">>,
                                     <<"0", ".", "0">>>>, ",")

----------------------------------------------------------------------------
(* The builder as a state machine: one call of build_model per behaviour *)

NoArray == [shape |-> <<0>>, data |-> <<>>]

NoFeatures == [shape |-> <<0>>, windows |-> <<>>]

NotBuilt == [exc |-> "none", localization |-> NoLayer, conf |-> NoLayer]

Idle ==
    /\ exc = "none"
    /\ l_size = 0 /\ T = 1 /\ stride = 1 /\ feat_dim = 0
    /\ fobj = "unopened"
    /\ f_init_array = NoArray /\ feat_stack = NoFeatures
    /\ l_pred = NoArray /\ y_pred = NoArray /\ loc = NoArray
    /\ score = NoArray /\ map_array = NoArray /\ seg_in = NoArray
    /\ proposal = NoArray

InitBuild ==
    /\ pc = "build"
    /\ model_prm \in BuildConfigs
    /\ network = NotBuilt
    /\ Idle

BuildDone(result) ==
    /\ network' = result
    /\ exc' = result.exc
    /\ pc' = IF result.exc = "none" THEN "built" ELSE "raised"
    /\ UNCHANGED <<model_prm, l_size, T, stride, feat_dim, fobj,
                   f_init_array, feat_stack, l_pred, y_pred, loc, score,
                   map_array, seg_in, proposal>>

BuildMlp ==
    /\ pc = "build"
    /\ ModelKind(model_prm) = "mlp"
    /\ BuildDone(build_model(model_prm, DefaultInputSize, DefaultGradClip,
                             DefaultForgetBias))

BuildLstm ==
    /\ pc = "build"
    /\ ModelKind(model_prm) = "lstm"
    /\ BuildDone(build_model(model_prm, DefaultInputSize, DefaultGradClip,
                             DefaultForgetBias))

BuildUnrecognized ==
    /\ pc = "build"
    /\ ModelKind(model_prm) = "unrecognized"
    /\ BuildDone(build_model(model_prm, DefaultInputSize, DefaultGradClip,
                             DefaultForgetBias))

NextBuild == BuildMlp \/ BuildLstm \/ BuildUnrecognized

SpecBuild == InitBuild /\ [][NextBuild]_vars

----------------------------------------------------------------------------
(* numpy arrays: a shape and the elements in row-major order *)

Arr(shape, data) == [shape |-> shape, data |-> data]

(* np.arange(start, stop, step) for integers and step >= 1 *)
RECURSIVE arange_data(_, _, _)
arange_data(start, stop, step) ==
    IF start >= stop THEN <<>>
    ELSE <<start>> \o arange_data(start + step, stop, step)

arange(start, stop, step) ==
    LET d == arange_data(start, stop, step) IN Arr(<<Len(d)>>, d)

zeros(n) == Arr(<<n>>, [i \in 1..n |-> 0])

(* a.reshape((-1, 2)) *)
reshape_pairs(a) == Arr(<<Len(a.data) \div 2, 2>>, a.data)

flatten(a) == Arr(<<Len(a.data)>>, a.data)

(* np.stack((a, b)) of two 1-d arrays of one length *)
stack(a, b) == Arr(<<2, a.shape[1]>>, a.data \o b.data)

(* repeat leaving the array as it is *)
repeat_once(a, n) == a

(* repeat behaving as np.tile(a, (1, n)) *)
repeat_tile(a, n) ==
    LET C == a.shape[2]
    IN  Arr(<<a.shape[1], C * n>>,
            [i \in 1..(Len(a.data) * n) |->
                a.data[((i - 1) \div (C * n)) * C + ((i - 1) % C) + 1]])

(* a.repeat(n, axis=-1) of a 2-d array *)
repeat(a, n) ==
    Arr(<<a.shape[1], a.shape[2] * n>>,
        [i \in 1..(Len(a.data) * n) |-> a.data[((i - 1) \div n) + 1]])

(* a.T of a 2-d array *)
transpose(a) ==
    LET R == a.shape[1]
        C == a.shape[2]
    IN  Arr(<<C, R>>,
            [i \in 1..(R * C) |-> a.data[((i - 1) % R) * C + ((i - 1) \div R) + 1]])

(* clip bounding from below only *)
clip_lower(a, lo, hi) ==
    Arr(a.shape, [i \in 1..Len(a.data) |-> Max(lo * LocScale, a.data[i])])

(* a.clip(0, 1), one unit being LocScale steps *)
clip(a, lo, hi) ==
    Arr(a.shape,
        [i \in 1..Len(a.data) |->
            Max(lo * LocScale, Min(hi * LocScale, a.data[i]))])

(* a * k *)
times(a, k) == Arr(a.shape, [i \in 1..Len(a.data) |-> a.data[i] * k])

(* m + a, m holding whole numbers and a fixed-point values *)
plus(m, a) ==
    Arr(m.shape, [i \in 1..Len(m.data) |-> m.data[i] * LocScale + a.data[i]])

(* a.astype(int): truncation towards zero *)
astype_int(a) ==
    Arr(a.shape,
        [i \in 1..Len(a.data) |->
            IF a.data[i] >= 0 THEN a.data[i] \div LocScale
            ELSE -((-a.data[i]) \div LocScale)])

(* daps.utils.segment.format(X, 'c2b'): each (start, pseudo-width) row is *)
(* turned into a (start, end) row                                        *)
segment_format(X) ==
    Arr(X.shape,
        [i \in 1..Len(X.data) |->
            IF i % 2 = 1 THEN X.data[i] ELSE X.data[i - 1] + X.data[i]])

Elem(a, r, c) == a.data[(r - 1) * a.shape[2] + c]

----------------------------------------------------------------------------
(* retrieve_proposals *)

(* WindowOffsets with the stop value included *)
WindowOffsetsInclusive(l, t, s) == arange(0, l - t + 1, s)

(* WindowOffsets always scanning at least one window *)
WindowOffsetsAtLeastOne(l, t, s) == arange(0, Max(l - t, 1), s)

(* WindowOffsets scanning up to the end of the video *)
WindowOffsetsWholeVideo(l, t, s) == arange(0, l, s)

(* line 136 *)
WindowOffsets(l, t, s) == arange(0, l - t, s)

(* Feature.read_feat_batch_from_video: one pooled row per offset, each *)
(* read over [offset, offset + duration)                               *)
read_feat_batch_from_video(offsets, duration, dim) ==
    [shape   |-> <<offsets.shape[1], dim>>,
     windows |-> [i \in 1..Len(offsets.data) |->
                     <<offsets.data[i], offsets.data[i] + duration>>]]

Size(shape) ==
    IF Len(shape) = 1 THEN shape[1]
    ELSE IF Len(shape) = 2 THEN shape[1] * shape[2]
    ELSE shape[1] * shape[2] * shape[3]

(* lines 139-144; "/" is the integer division of Python 2 *)
lstm_reshape(prm, feats) ==
    LET f == user_prm(prm).fields IN
    IF ~user_prm(prm).ok THEN [exc |-> "IndexError", feats |-> feats]
    ELSE IF Len(f) # 4 THEN [exc |-> "ValueError", feats |-> feats]
    ELSE LET seq_length == int(f[2]) IN
         IF ~seq_length.ok THEN [exc |-> "ValueError", feats |-> feats]
         ELSE IF seq_length.val = 0
              THEN [exc |-> "ZeroDivisionError", feats |-> feats]
         ELSE LET shape == <<feats.shape[1], seq_length.val,
                             feats.shape[2] \div seq_length.val>>
              IN  IF Size(shape) # Size(feats.shape)
                  THEN [exc |-> "ValueError", feats |-> feats]
                  ELSE [exc |-> "none",
                        feats |-> [feats EXCEPT !.shape = shape]]

(* Outputs of the two heads for a batch of n rows: lasagne's get_output. *)
(* The values depend on weights and features; seed picks among them.     *)
RawValue(k) == (k % (3 * LocScale + 1)) - LocScale

ScoreValue(k) == (k % (ScoreScale - 1)) + 1

get_output(net, n, sd) ==
    LET wl == net.localization.layer.num_units
        wc == net.conf.layer.num_units
    IN  [l_pred_var |-> Arr(<<n, wl>>, [i \in 1..(n * wl) |-> RawValue(sd + i)]),
         y_pred_var |-> Arr(<<n, wc>>, [i \in 1..(n * wc) |-> ScoreValue(sd + i)])]

forward_pass(net, n, sd) ==
    LET out == get_output(net, n, sd)
    IN  [loc |-> reshape_pairs(out.l_pred_var), score |-> out.y_pred_var]

NetConfigs ==
    {MlpPrefix \o join(<<str(1), str(1), str(4), <<"0", ".", "0">>,
                         <<"0", ".", "0">>>>, ","),
     MlpPrefix \o join(<<str(2), str(1), str(4), <<"0", ".", "5">>,
                         <<"0", ".", "0">>>>, ","),
     LstmPrefix \o join(<<str(2), str(2), str(4), str(1)>>, ","),
     LstmPrefix \o join(<<str(3), str(3), str(4), str(1)>>, ",")}

RetrieveConfigs ==
    NetConfigs \cup {LstmPrefix \o join(<<str(2), str(2), str(4)>>, ",")}

FeatDims == {4, 6}

Networks ==
    {build_model(c, DefaultInputSize, DefaultGradClip, DefaultForgetBias) :
         c \in NetConfigs}

Init ==
    /\ pc = "open"
    /\ network \in Networks
    /\ model_prm \in RetrieveConfigs
    /\ exc = "none"
    /\ l_size \in 0..MaxL
    /\ T \in 1..MaxT
    /\ stride \in 1..MaxStride
    /\ feat_dim \in FeatDims
    /\ fobj = "unopened"
    /\ f_init_array = NoArray /\ feat_stack = NoFeatures
    /\ l_pred = NoArray /\ y_pred = NoArray /\ loc = NoArray
    /\ score = NoArray /\ map_array = NoArray /\ seg_in = NoArray
    /\ proposal = NoArray

Inputs == <<model_prm, network, l_size, T, stride, feat_dim>>

Outputs == <<l_pred, y_pred, loc, score, map_array, seg_in, proposal>>

(* lines 132-134 *)
OpenInstance ==
    /\ pc = "open"
    /\ fobj' = "open"
    /\ pc' = "scan"
    /\ UNCHANGED <<Inputs, Outputs, exc, f_init_array, feat_stack>>

(* line 136 *)
VideoScanning ==
    /\ pc = "scan"
    /\ f_init_array' = WindowOffsets(l_size, T, stride)
    /\ pc' = "read"
    /\ UNCHANGED <<Inputs, Outputs, exc, fobj, feat_stack>>

(* lines 137-138 *)
ReadFeatBatch ==
    /\ pc = "read"
    /\ feat_stack' = read_feat_batch_from_video(f_init_array, T, feat_dim)
    /\ pc' = "reshape"
    /\ UNCHANGED <<Inputs, Outputs, exc, fobj, f_init_array>>

(* lines 137-138, the read failing (video or dataset missing) *)
ReadFeatBatchRaises ==
    /\ pc = "read"
    /\ exc' = "IOError"
    /\ pc' = "raised"
    /\ UNCHANGED <<Inputs, Outputs, fobj, f_init_array, feat_stack>>

(* lines 137-138, the store holding no features for the video: the batch *)
(* comes back empty                                                      *)
ReadFeatBatchEmpty ==
    /\ pc = "read"
    /\ f_init_array.shape[1] > 0
    /\ feat_stack' = read_feat_batch_from_video(arange(0, 0, 1), T, feat_dim)
    /\ pc' = "reshape"
    /\ UNCHANGED <<Inputs, Outputs, exc, fobj, f_init_array>>

(* line 139, the configuration not being an lstm one *)
SkipReshape ==
    /\ pc = "reshape"
    /\ ~startswith(model_prm, LstmPrefix)
    /\ pc' = "close"
    /\ UNCHANGED <<Inputs, Outputs, exc, fobj, f_init_array, feat_stack>>

(* lines 139-144 *)
LstmReshape ==
    /\ pc = "reshape"
    /\ startswith(model_prm, LstmPrefix)
    /\ lstm_reshape(model_prm, feat_stack).exc = "none"
    /\ feat_stack' = lstm_reshape(model_prm, feat_stack).feats
    /\ pc' = "close"
    /\ UNCHANGED <<Inputs, Outputs, exc, fobj, f_init_array>>

(* lines 139-144, the unpack or the reshape raising *)
LstmReshapeRaises ==
    /\ pc = "reshape"
    /\ startswith(model_prm, LstmPrefix)
    /\ lstm_reshape(model_prm, feat_stack).exc # "none"
    /\ exc' = lstm_reshape(model_prm, feat_stack).exc
    /\ pc' = "raised"
    /\ UNCHANGED <<Inputs, Outputs, fobj, f_init_array, feat_stack>>

(* line 147 *)
CloseInstance ==
    /\ pc = "close"
    /\ fobj' = "closed"
    /\ pc' = "forward"
    /\ UNCHANGED <<Inputs, Outputs, exc, f_init_array, feat_stack>>

(* line 150 *)
ForwardPass ==
    /\ pc = "forward"
    /\ \E sd \in 0..MaxSeed :
          LET n   == feat_stack.shape[1]
              out == get_output(network, n, sd)
              res == forward_pass(network, n, sd)
          IN  /\ l_pred' = out.l_pred_var
              /\ y_pred' = out.y_pred_var
              /\ loc' = res.loc
              /\ score' = res.score
    /\ pc' = "assemble"
    /\ UNCHANGED <<Inputs, exc, fobj, f_init_array, feat_stack, map_array,
                   seg_in, proposal>>

(* line 150, the evaluation rejecting the batch *)
ForwardPassRaises ==
    /\ pc = "forward"
    /\ exc' = "ValueError"
    /\ pc' = "raised"
    /\ UNCHANGED <<Inputs, Outputs, fobj, f_init_array, feat_stack>>

(* lines 151-158 *)
Assemble ==
    /\ pc = "assemble"
    /\ f_init_array.shape = <<score.shape[1]>>
    /\ LET n_proposals == score.shape[2]
           n_segments  == score.shape[1]
           m == transpose(repeat(stack(f_init_array, zeros(n_segments)),
                                 n_proposals))
           x == plus(m, times(clip(loc, 0, 1), T))
       IN  /\ score' = flatten(score)
           /\ map_array' = m
           /\ seg_in' = x
           /\ proposal' = astype_int(segment_format(x))
    /\ pc' = "done"
    /\ UNCHANGED <<Inputs, exc, fobj, f_init_array, feat_stack, l_pred,
                   y_pred, loc>>

(* lines 151-155, np.stack refusing two arrays of different lengths *)
AssembleRaises ==
    /\ pc = "assemble"
    /\ f_init_array.shape # <<score.shape[1]>>
    /\ exc' = "ValueError"
    /\ pc' = "raised"
    /\ UNCHANGED <<Inputs, Outputs, fobj, f_init_array, feat_stack>>

Next ==
    \/ OpenInstance
    \/ VideoScanning
    \/ ReadFeatBatch
    \/ ReadFeatBatchRaises
    \/ ReadFeatBatchEmpty
    \/ SkipReshape
    \/ LstmReshape
    \/ LstmReshapeRaises
    \/ CloseInstance
    \/ ForwardPass
    \/ ForwardPassRaises
    \/ Assemble
    \/ AssembleRaises

Spec == Init /\ [][Next]_vars

----------------------------------------------------------------------------
(* Properties of retrieve_proposals, checked under Spec *)

Scanned == pc \notin {"open", "scan"}

NSegments == f_init_array.shape[1]

NOutputs == network.conf.layer.num_units

Row(a, k) == <<a.data[2 * k - 1], a.data[2 * k]>>

Clipped(v) == IF v < 0 THEN 0 ELSE IF v > LocScale THEN LocScale ELSE v

(* C1, as stated: for L > T the number of window start offsets is *)
(* floor((L - T) / stride) + 1.                                   *)
C1_WindowCountFloorPlusOne ==
    (Scanned /\ l_size > T) =>
        NSegments = ((l_size - T) \div stride) + 1

(* C1, amended: for L > T the number of window start offsets is    *)
(* ceil((L - T) / stride), that is floor((L - T - 1) / stride) + 1. *)
C1_WindowCountCeil ==
    (Scanned /\ l_size > T) =>
        /\ NSegments = ((l_size - T - 1) \div stride) + 1
        /\ NSegments = Len(f_init_array.data)

C1_Witness ==
    /\ Scanned /\ l_size > T /\ stride > 1
    /\ (l_size - T) % stride = 0
    /\ NSegments = (l_size - T) \div stride

(* C2: for L <= T the window-offset sequence is empty, and the call *)
(* returns zero proposals and zero scores.                          *)
C2_ShortVideoEmpty ==
    (Scanned /\ l_size <= T) =>
        /\ f_init_array.data = <<>>
        /\ NSegments = 0
        /\ pc = "done" =>
              /\ proposal.shape[1] = 0 /\ Len(proposal.data) = 0
              /\ Len(score.data) = 0

C2_Witness ==
    /\ pc = "done" /\ l_size = T
    /\ Len(proposal.data) = 0 /\ Len(score.data) = 0

(* C3: whenever a call of retrieve_proposals has ended, by returning or *)
(* by raising, the feature store it opened is closed.                   *)
C3_StoreClosedAtEnd ==
    pc \in {"done", "raised"} => fobj = "closed"

(* C4: every raw localization value is clipped to [0, 1] before it is  *)
(* scaled by T, so each pair handed to the segment-format conversion   *)
(* has its first coordinate in [window_start, window_start + T] and    *)
(* its second in [0, T].                                               *)
C4_ClippedBeforeScaling ==
    pc = "done" =>
        \A k \in 1..(NSegments * NOutputs) :
            LET ws == f_init_array.data[((k - 1) \div NOutputs) + 1]
                x  == Row(seg_in, k)
                r  == Row(loc, k)
            IN  /\ x[1] = ws * LocScale + Clipped(r[1]) * T
                /\ x[2] = Clipped(r[2]) * T
                /\ ws * LocScale <= x[1] /\ x[1] <= (ws + T) * LocScale
                /\ 0 <= x[2] /\ x[2] <= T * LocScale

C4_Witness ==
    /\ pc = "done"
    /\ \E i \in 1..Len(loc.data) : loc.data[i] < 0 /\ seg_in.data[i] >= 0
    /\ \E k \in 1..(NSegments * NOutputs) :
          /\ Row(loc, k)[1] > LocScale
          /\ Row(seg_in, k)[1] = (Row(map_array, k)[1] + T) * LocScale

(* C5: the proposals and the scores returned have one length, the number *)
(* of window offsets times the n_outputs of the confidence head.         *)
C5_OutputLengths ==
    pc = "done" =>
        /\ Len(proposal.shape) = 2 /\ proposal.shape[2] = 2
        /\ Len(proposal.data) = 2 * proposal.shape[1]
        /\ score.shape = <<Len(score.data)>>
        /\ proposal.shape[1] = Len(score.data)
        /\ Len(score.data) = NSegments * NOutputs

C5_Witness ==
    /\ pc = "done" /\ NSegments >= 2 /\ NOutputs >= 2
    /\ proposal.shape[1] = NSegments * NOutputs

(* C9: the output is flattened window-major, proposal-minor in all three *)
(* arrays: entry k carries the start of window k div n_proposals, the    *)
(* localization pair k mod n_proposals of that window and the confidence *)
(* output k mod n_proposals of that window.                              *)
C9_WindowMajorAlignment ==
    pc = "done" =>
        \A k \in 0..(NSegments * NOutputs - 1) :
            LET w == (k \div NOutputs) + 1
                j == k % NOutputs
            IN  /\ Row(map_array, k + 1) = <<f_init_array.data[w], 0>>
                /\ Row(loc, k + 1) = <<Elem(l_pred, w, 2 * j + 1),
                                       Elem(l_pred, w, 2 * j + 2)>>
                /\ Row(seg_in, k + 1)[1] - Clipped(Row(loc, k + 1)[1]) * T
                      = f_init_array.data[w] * LocScale
                /\ score.data[k + 1] = Elem(y_pred, w, j + 1)

C9_Witness ==
    /\ pc = "done" /\ NSegments >= 2 /\ NOutputs >= 2
    /\ Row(map_array, NOutputs)[1] # Row(map_array, NOutputs + 1)[1]
    /\ score.data[NOutputs + 1] = Elem(y_pred, 2, 1)

(* C10: every window read lies inside the video: the offsets start at 0, *)
(* are strictly increasing non-negative multiples of stride, and every   *)
(* offset + T is at most L.                                              *)
C10_WindowsInsideVideo ==
    Scanned =>
        /\ \A i \in 1..NSegments :
              /\ f_init_array.data[i] >= 0
              /\ f_init_array.data[i] % stride = 0
              /\ f_init_array.data[i] + T <= l_size
              /\ i > 1 => f_init_array.data[i - 1] < f_init_array.data[i]
        /\ NSegments > 0 => f_init_array.data[1] = 0
        /\ \A i \in 1..Len(feat_stack.windows) :
              /\ feat_stack.windows[i][1] = f_init_array.data[i]
              /\ feat_stack.windows[i][2] <= l_size

C10_Witness ==
    /\ pc = "reshape" /\ NSegments >= 2
    /\ Len(feat_stack.windows) = NSegments
    /\ feat_stack.windows[NSegments][2] < l_size
    /\ feat_stack.windows[NSegments][2] + stride >= l_size

----------------------------------------------------------------------------
(* Properties of build_model, checked under SpecBuild *)

Ended == pc \in {"built", "raised"}

HasMlpPrefix ==
    /\ Len(model_prm) >= 4
    /\ model_prm[1] = "m" /\ model_prm[2] = "l" /\ model_prm[3] = "p"
    /\ model_prm[4] = ":"

HasLstmPrefix ==
    /\ Len(model_prm) >= 5
    /\ model_prm[1] = "l" /\ model_prm[2] = "s" /\ model_prm[3] = "t"
    /\ model_prm[4] = "m" /\ model_prm[5] = ":"

FieldCount ==
    Cardinality({i \in 1..Len(model_prm) : model_prm[i] = ","}) + 1

IsHead(h) == h # NoLayer /\ h.layer.type = "Dense"

(* C6: a configuration whose prefix is neither mlp: nor lstm: ends in a *)
(* value error and no network; a recognized prefix with the right field *)
(* count returns both heads.                                            *)
C6_PrefixDispatch ==
    Ended =>
        /\ (~HasMlpPrefix /\ ~HasLstmPrefix) =>
              /\ pc = "raised" /\ exc = "ValueError"
              /\ network.localization = NoLayer /\ network.conf = NoLayer
        /\ ((HasMlpPrefix /\ FieldCount = 5) \/ (HasLstmPrefix /\ FieldCount = 4)) =>
              /\ pc = "built" /\ exc = "none"
              /\ IsHead(network.localization) /\ IsHead(network.conf)

C6_Witness ==
    /\ pc = "raised" /\ exc = "ValueError"
    /\ ~HasMlpPrefix /\ ~HasLstmPrefix
    /\ model_prm[1] = "g" /\ FieldCount = 4
    /\ network.conf = NoLayer

(* C7: for every valid configuration with n_outputs = n the localization *)
(* head has width 2 * n and the confidence head width n, both on the     *)
(* same network output; mlp:5,1,4,0.0,0.0 gives 10 and 5.                *)
C7_HeadWidths ==
    pc = "built" =>
        LET n == DecimalValue(SubSeq(model_prm,
                                     IF HasMlpPrefix THEN 5 ELSE 6,
                                     (CHOOSE i \in 1..Len(model_prm) :
                                         /\ model_prm[i] = ","
                                         /\ \A m \in 1..(i - 1) : model_prm[m] # ",")
                                       - 1))
        IN  /\ network.localization.layer.num_units = 2 * n
            /\ network.conf.layer.num_units = n
            /\ network.localization.incoming = network.conf.incoming
            /\ model_prm = ExampleConfig =>
                  /\ network.localization.layer.num_units = 10
                  /\ network.conf.layer.num_units = 5

C7_Witness ==
    /\ pc = "built" /\ model_prm = ExampleConfig
    /\ network.localization.layer.num_units = 10
    /\ network.conf.layer.num_units = 5

(* C8: an mlp network has exactly depth dense hidden layers, each        *)
(* followed by a dropout layer at the rate drop_hid of the configuration *)
(* and by none when drop_hid is 0; an input dropout layer at rate        *)
(* drop_in exists iff drop_in is non-zero.                               *)
C8_MlpLayers ==
    (pc = "built" /\ HasMlpPrefix) =>
        LET f        == split(SubSeq(model_prm, 5, Len(model_prm)), ",")
            depth    == DecimalValue(f[2])
            drop_in  == float(f[4]).val
            drop_hid == float(f[5]).val
            layers   == network.conf.incoming
            dense    == {i \in 1..Len(layers) : layers[i].type = "Dense"}
            followed(i) == i < Len(layers) /\ layers[i + 1].type = "Dropout"
        IN  /\ Cardinality(dense) = depth
            /\ \A i \in dense :
                  IF drop_hid = 0 THEN ~followed(i)
                  ELSE followed(i) /\ layers[i + 1].p = drop_hid
            /\ IF drop_in = 0 THEN Len(layers) < 2 \/ layers[2].type # "Dropout"
               ELSE Len(layers) >= 2 /\ layers[2] = DropoutLayer(drop_in)

====
